---------------------------- MODULE Spec2Model ----------------------------
(***************************************************************************)
(* State-machine model of the memory store of                              *)
(* mcp-langgraph-store-file-system: the identifier validator, the access   *)
(* policy, the backend connectors with their lazy one-time setup, and the  *)
(* FileStore operations built on them.                                     *)
(*                                                                         *)
(* Strings are sequences of one-character strings, so that the regular     *)
(* expression of the validator, the "namespace/key" path of the read-only  *)
(* check and the comma-separated settings are computed, not assumed.       *)
(***************************************************************************)
EXTENDS Integers, Sequences, FiniteSets, TLC

(***************************************************************************)
(* Characters and strings                                                  *)
(***************************************************************************)

\* The character class [a-zA-Z0-9_-] of FileStore._validate_pattern.
IdentChars ==
    { "a","b","c","d","e","f","g","h","i","j","k","l","m",
      "n","o","p","q","r","s","t","u","v","w","x","y","z",
      "A","B","C","D","E","F","G","H","I","J","K","L","M",
      "N","O","P","Q","R","S","T","U","V","W","X","Y","Z",
      "0","1","2","3","4","5","6","7","8","9","_","-" }

\* The characters str.strip() removes from both ends.
Whitespace == { " ", "\t", "\n", "\r", "\f" }

\* Python's `$` (no MULTILINE flag): position n of s is the end of the
\* string, or sits just before a newline that is the last character.
AtDollar(s, n) ==
    \/ n = Len(s)
    \/ n = Len(s) - 1 /\ s[Len(s)] = "\n"

\* self._validate_pattern.match(identifier) for r'^[a-zA-Z0-9_-]+$':
\* some non-empty prefix of class characters ends where `$` matches.
PatternMatch(s) ==
    \E n \in 1..Len(s) :
        /\ \A i \in 1..n : s[i] \in IdentChars
        /\ AtDollar(s, n)

\* FileStore._validate_identifier: "ok", or the ValueError it raises.
ValidateIdentifier(identifier) ==
    IF identifier = <<>> THEN "ValueError"
    ELSE IF ~PatternMatch(identifier) THEN "ValueError"
    ELSE "ok"

\* str.strip(): drop leading and trailing whitespace.
RECURSIVE LStrip(_)
LStrip(s) ==
    IF s # <<>> /\ Head(s) \in Whitespace THEN LStrip(Tail(s)) ELSE s

RECURSIVE RStrip(_)
RStrip(s) ==
    IF s # <<>> /\ s[Len(s)] \in Whitespace
    THEN RStrip(SubSeq(s, 1, Len(s) - 1)) ELSE s

Strip(s) == RStrip(LStrip(s))

\* str.split(','): the pieces between commas, as a sequence of strings.
RECURSIVE SplitComma(_, _)
SplitComma(s, cur) ==
    IF s = <<>> THEN <<cur>>
    ELSE IF Head(s) = "," THEN <<cur>> \o SplitComma(Tail(s), <<>>)
    ELSE SplitComma(Tail(s), Append(cur, Head(s)))

\* [item.strip() for item in text.split(',') if item.strip()], guarded by
\* `if not text or not text.strip(): return []`.
ParseCommaList(text) ==
    IF text = <<>> \/ Strip(text) = <<>> THEN <<>>
    ELSE LET parts == SplitComma(text, <<>>)
         IN  SelectSeq([i \in 1..Len(parts) |-> Strip(parts[i])],
                       LAMBDA x : x # <<>>)

\* `x in list`
InList(x, list) == \E i \in 1..Len(list) : list[i] = x


\* str.lower() on the ASCII letters.
UpperLetters ==
    << "A","B","C","D","E","F","G","H","I","J","K","L","M",
       "N","O","P","Q","R","S","T","U","V","W","X","Y","Z" >>

LowerLetters ==
    << "a","b","c","d","e","f","g","h","i","j","k","l","m",
       "n","o","p","q","r","s","t","u","v","w","x","y","z" >>

LowerChar(ch) ==
    IF \E i \in 1..Len(UpperLetters) : UpperLetters[i] = ch
    THEN LowerLetters[CHOOSE i \in 1..Len(UpperLetters) : UpperLetters[i] = ch]
    ELSE ch

Lower(s) == [i \in 1..Len(s) |-> LowerChar(s[i])]

\* `pattern in text` on strings: pattern occurs as a contiguous substring.
Contains(text, pattern) ==
    \E i \in 0..(Len(text) - Len(pattern)) :
        SubSeq(text, i + 1, i + Len(pattern)) = pattern

(***************************************************************************)
(* Configuration (core/settings.py) and the inputs of the model            *)
(***************************************************************************)

\* Settings.USER_ID, at its default "default-user".
USER_ID == << "d","e","f","a","u","l","t","-","u","s","e","r" >>

\* The connector objects of the three backend modules.
Connectors == { "redis", "postgresql", "mongodb" }

\* Values of settings.BACKEND.
BackendRedis == << "r","e","d","i","s" >>
BackendPostgres == << "p","o","s","t","g","r","e","s","q","l" >>
BackendPostgresMixed == << "P","o","s","t","g","r","e","S","Q","L" >>
BackendMongo == << "m","o","n","g","o","d","b" >>
BackendUnknown == << "s","q","l","i","t","e" >>

\* Namespace and key identifiers the callers pass.
NsPrefs == << "p","r","e","f","s" >>
NsWork == << "w","o","r","k" >>
NsSlash == << "p","/" >>
KeyTone == << "t","o","n","e" >>
KeyNotes == << "n","o","t","e","s" >>
KeySpace == << "a"," ","b" >>
Empty == << >>

\* Comma-separated settings strings.
Comma == << "," >>
Slash == << "/" >>
Blank == << " " >>
PathPrefsTone == NsPrefs \o Slash \o KeyTone
PathSlashTone == NsSlash \o Slash \o KeyTone
ReadOnlyText == Blank \o PathPrefsTone \o Blank \o Comma \o PathSlashTone \o Comma
AllowedText == KeyTone \o Comma \o Blank

\* A stored value as put_memory and update_memory build it.
MakeValue(content) == [content |-> content]

\* A record of the backend: langgraph's Item, whose namespace is the full
\* scope tuple the record was put under.  created_at is the backend's time
\* when the record was first stored, updated_at its time at the last put.
MakeItem(scope, key, value, created_at, updated_at) ==
    [key |-> key,
     value |-> value,
     created_at |-> created_at,
     updated_at |-> updated_at,
     namespace |-> scope]

\* The record a read-only key holds before the process starts.
SeedItem == MakeItem(<<USER_ID, NsPrefs>>, KeyTone, MakeValue("seed"), 0, 0)

\* An entry of the configuration directory: core/file_config.py's
\* MemoryConfig, without its descriptions and triggers.
MemoryConfig(memory_category, file_name) ==
    [memory_category |-> memory_category, file_name |-> file_name]

\* The configurations and initial store contents the model starts from;
\* `files` is what the JSON files of the configuration directory hold.
Scenarios ==
    { [BACKEND |-> BackendRedis, ALLOWED_FILES |-> Empty,
       READ_ONLY_FILES |-> Empty, items |-> {}, files |-> <<>>],
      [BACKEND |-> BackendPostgresMixed, ALLOWED_FILES |-> AllowedText,
       READ_ONLY_FILES |-> Empty, items |-> {},
       files |-> << MemoryConfig(NsPrefs, KeyTone), MemoryConfig(NsPrefs, KeyNotes),
                    MemoryConfig(NsWork, KeyTone) >>],
      [BACKEND |-> BackendMongo, ALLOWED_FILES |-> Empty,
       READ_ONLY_FILES |-> ReadOnlyText, items |-> {SeedItem},
       files |-> << MemoryConfig(NsWork, KeyNotes), MemoryConfig(NsPrefs, KeyNotes) >>],
      [BACKEND |-> BackendUnknown, ALLOWED_FILES |-> Empty,
       READ_ONLY_FILES |-> ReadOnlyText, items |-> {}, files |-> <<>>] }

\* FileConfigManager.load_configs_from_directory: the entries read, kept
\* when allowed_files is empty or names their file_name.
LoadConfigs(all_memories, allowed_files) ==
    IF allowed_files # <<>>
    THEN SelectSeq(all_memories, LAMBDA mem : InList(mem.file_name, allowed_files))
    ELSE all_memories

Contents == { "concise", "direct" }
NsInputs == { NsPrefs, NsWork, Empty, NsSlash }
KeyInputs == { KeyTone, KeyNotes, Empty, KeySpace }
Patterns == { Empty, << "T","O" >>, << "z" >> }

\* The concurrent callers (tool calls in flight).
Procs == { "t1", "t2" }

(***************************************************************************)
(* State                                                                   *)
(***************************************************************************)

VARIABLES
    settings,    \* the Settings object: BACKEND, ALLOWED_FILES, READ_ONLY_FILES
    store,       \* per backend, the records it holds (a set of Items)
    setupDone,   \* per connector, its _setup_done flag
    setupRuns,   \* per connector, how many times store.setup() has executed
    pc,          \* per caller, where its operation is suspended
    call,        \* per caller, the operation and arguments of its last call
    result,      \* per caller, what its last call returned or raised
    handle,      \* per caller, the connector whose scoped store it holds
    ops,         \* per caller, the backend interactions of its last call
    lastWrite,   \* (namespace, key, content) of the latest successful write
    vInput,      \* the string handed to the validator on its own
    vResult,     \* what the validator answered for vInput
    clients,     \* the backend connections (clients) that are open
    conn,        \* per caller, the connection under the scoped store it holds
    instances,   \* per connector module, how many connector objects it has built
    clock,       \* the backend's clock, which stamps the records it stores
    written      \* per caller, the record version the aput of its call stored

vars == << settings, store, setupDone, setupRuns, pc, call, result, handle,
           ops, lastWrite, vInput, vResult, clients, conn, instances, clock,
           written >>

\* `None` for an Item, and the shapes of results.
NoItem == [absent |-> TRUE]
Pending == [status |-> "pending"]
ValueErrorResult == [status |-> "ValueError"]

\* The ValueError of _validate_identifier(identifier, name): its message
\* begins with the name it was given, "namespace" or "key".
IdentifierError(name) == [status |-> "ValueError", name |-> name]
NamespaceNotAllowedResult == [status |-> "PermissionError", what |-> "namespace"]
ReadOnlyResult == [status |-> "PermissionError", what |-> "read_only"]
NotFoundResult == [status |-> "FileNotFoundError"]

\* No connection: the caller holds no scoped store.
NoConn == [connector |-> "none", owner |-> "none"]

(***************************************************************************)
(* Access policy (FileStore and Settings)                                  *)
(***************************************************************************)

\* Settings.get_allowed_files
GetAllowedFiles == ParseCommaList(settings.ALLOWED_FILES)

\* Settings.get_read_only_files
GetReadOnlyFiles == ParseCommaList(settings.READ_ONLY_FILES)

\* A namespace check that consults the allow-list.
IsNamespaceAllowedByList(namespace) ==
    IF GetAllowedFiles = <<>> THEN TRUE ELSE InList(namespace, GetAllowedFiles)

\* FileStore._is_namespace_allowed: both branches return True.
IsNamespaceAllowed(namespace) ==
    IF GetAllowedFiles = <<>> THEN TRUE ELSE TRUE

\* A read-only check that looks the bare key up, without its namespace.
IsReadOnlyBareKey(namespace, key) ==
    InList(key, GetReadOnlyFiles)

\* FileStore._is_read_only: f"{namespace}/{key}" in read_only_files
IsReadOnly(namespace, key) ==
    InList(namespace \o Slash \o key, GetReadOnlyFiles)

(***************************************************************************)
(* Backend selection and the store primitives                              *)
(***************************************************************************)

\* store_factory.get_store_connection: the connector for a BACKEND value,
\* or "ValueError".
GetStoreConnection(backend) ==
    LET b == Lower(backend)
    IN  IF b = BackendRedis THEN "redis"
        ELSE IF b = BackendPostgres THEN "postgresql"
        ELSE IF b = BackendMongo THEN "mongodb"
        ELSE "ValueError"

\* The connector file_store.py binds at import: redis_connection.
FileStoreConnection == "redis"

\* hasattr(store, 'setup') in ensure_setup; PostgreSQL calls setup
\* unconditionally, and AsyncRedisStore defines setup().
StoreHasSetup(c) == TRUE

\* How many records one asearch call returns at most: the call passes no
\* limit, so langgraph's BaseStore.asearch default (limit=10) applies.
SearchLimit == 10

IsPrefix(prefix, tuple) ==
    /\ Len(prefix) <= Len(tuple)
    /\ SubSeq(tuple, 1, Len(prefix)) = prefix

\* A set as a sequence, in the order the backend returns it.
RECURSIVE SetToSeq(_)
SetToSeq(S) ==
    IF S = {} THEN <<>>
    ELSE LET x == CHOOSE y \in S : TRUE
         IN  <<x>> \o SetToSeq(S \ {x})

\* store.asearch(namespace_prefix): the records under the prefix, cut to
\* the default limit.
ASearch(items, prefix) ==
    LET hits == SetToSeq({ it \in items : IsPrefix(prefix, it.namespace) })
    IN  SubSeq(hits, 1, IF Len(hits) < SearchLimit THEN Len(hits) ELSE SearchLimit)

\* store.aget(namespace, key): the record, or None.
AGet(items, scope, key) ==
    IF \E it \in items : it.namespace = scope /\ it.key = key
    THEN CHOOSE it \in items : it.namespace = scope /\ it.key = key
    ELSE NoItem

\* The created_at of the record a put at time `now` stores: that of the
\* record it replaces, or `now` for a new record.
CreatedAt(items, scope, key, now) ==
    IF AGet(items, scope, key) = NoItem THEN now
    ELSE AGet(items, scope, key).created_at

\* The record version an aput at time `now` stores.
PutItem(items, scope, key, value, now) ==
    MakeItem(scope, key, value, CreatedAt(items, scope, key, now), now)

\* A put that only inserts: an existing record keeps its value.
APutInsertOnly(items, scope, key, value, now) ==
    IF \E it \in items : it.namespace = scope /\ it.key = key
    THEN items
    ELSE items \cup { PutItem(items, scope, key, value, now) }

\* A put that rewrites the namespace: the other records under the scope
\* are dropped.
APutReplacing(items, scope, key, value, now) ==
    { it \in items : it.namespace # scope }
        \cup { PutItem(items, scope, key, value, now) }

\* store.aput(namespace, key, value) at the backend time `now`: an upsert.
APut(items, scope, key, value, now) ==
    { it \in items : ~(it.namespace = scope /\ it.key = key) }
        \cup { PutItem(items, scope, key, value, now) }

(***************************************************************************)
(* FileStore: the local checks and the shaping of results                  *)
(***************************************************************************)

Proceed == [status |-> "proceed"]

\* list_memories, lines 93-96: validate the namespace, then the policy.
ListMemoriesChecks(namespace) ==
    IF ValidateIdentifier(namespace) # "ok" THEN IdentifierError("namespace")
    ELSE IF ~IsNamespaceAllowed(namespace) THEN NamespaceNotAllowedResult
    ELSE Proceed

\* get_memory, lines 127-131.
GetMemoryChecks(namespace, key) ==
    IF ValidateIdentifier(namespace) # "ok" THEN IdentifierError("namespace")
    ELSE IF ValidateIdentifier(key) # "ok" THEN IdentifierError("key")
    ELSE IF ~IsNamespaceAllowed(namespace) THEN NamespaceNotAllowedResult
    ELSE Proceed

\* put_memory, lines 164-171.
PutMemoryChecks(namespace, key) ==
    IF ValidateIdentifier(namespace) # "ok" THEN IdentifierError("namespace")
    ELSE IF ValidateIdentifier(key) # "ok" THEN IdentifierError("key")
    ELSE IF ~IsNamespaceAllowed(namespace) THEN NamespaceNotAllowedResult
    ELSE IF IsReadOnly(namespace, key) THEN ReadOnlyResult
    ELSE Proceed

\* Checks that validate the key before the namespace.
UpdateMemoryChecksKeyFirst(namespace, key) ==
    IF ValidateIdentifier(key) # "ok" THEN IdentifierError("key")
    ELSE IF ValidateIdentifier(namespace) # "ok" THEN IdentifierError("namespace")
    ELSE IF ~IsNamespaceAllowed(namespace) THEN NamespaceNotAllowedResult
    ELSE IF IsReadOnly(namespace, key) THEN ReadOnlyResult
    ELSE Proceed

\* update_memory, lines 209-216.
UpdateMemoryChecks(namespace, key) ==
    IF ValidateIdentifier(namespace) # "ok" THEN IdentifierError("namespace")
    ELSE IF ValidateIdentifier(key) # "ok" THEN IdentifierError("key")
    ELSE IF ~IsNamespaceAllowed(namespace) THEN NamespaceNotAllowedResult
    ELSE IF IsReadOnly(namespace, key) THEN ReadOnlyResult
    ELSE Proceed

\* search_memories, lines 258-265: its own checks, then those of the
\* list_memories it calls.
SearchMemoriesChecks(namespace) ==
    IF ValidateIdentifier(namespace) # "ok" THEN IdentifierError("namespace")
    ELSE IF ~IsNamespaceAllowed(namespace) THEN NamespaceNotAllowedResult
    ELSE ListMemoriesChecks(namespace)

\* namespaces_data[namespace]["file_count"] += 1, inserting the entry first
\* when the name is new (a dict keeps insertion order).
CountNamespace(data, name) ==
    IF \E i \in 1..Len(data) : data[i].name = name
    THEN [i \in 1..Len(data) |->
            IF data[i].name = name
            THEN [data[i] EXCEPT !.file_count = @ + 1]
            ELSE data[i]]
    ELSE Append(data, [name |-> name, file_count |-> 1])

\* The loop of list_namespaces over the records found.
RECURSIVE GroupNamespaces(_, _)
GroupNamespaces(items, data) ==
    IF items = <<>> THEN data
    ELSE LET item == Head(items)
             namespace == IF item.namespace # <<>> THEN item.namespace[1]
                          ELSE << "d","e","f","a","u","l","t" >>
         IN  IF ~IsNamespaceAllowed(namespace)
             THEN GroupNamespaces(Tail(items), data)
             ELSE GroupNamespaces(Tail(items), CountNamespace(data, namespace))

\* The loop of list_memories over the records found.
ShapeMemories(items, namespace) ==
    [i \in 1..Len(items) |->
        [key |-> items[i].key,
         created_at |-> items[i].created_at,
         updated_at |-> items[i].updated_at,
         namespace |-> namespace,
         is_read_only |-> IsReadOnly(namespace, items[i].key)]]

\* item.value.get("content", "")
ContentOf(value) ==
    IF "content" \in DOMAIN value THEN value.content ELSE ""

\* The result dictionary of get_memory.
ShapeMemory(item, namespace, key) ==
    [content |-> ContentOf(item.value),
     key |-> key,
     created_at |-> item.created_at,
     updated_at |-> item.updated_at,
     namespace |-> namespace,
     status |-> "ok",
     is_read_only |-> IsReadOnly(namespace, key)]

\* Python's None where a timestamp is expected; no timestamp is negative.
None == -1

\* The result dictionary of put_memory and update_memory, from the record
\* the re-read returned: `item.created_at if item else None`.
ShapeWritten(namespace, key, message, item) ==
    [key |-> key,
     created_at |-> IF item # NoItem THEN item.created_at ELSE None,
     updated_at |-> IF item # NoItem THEN item.updated_at ELSE None,
     namespace |-> namespace,
     status |-> "ok",
     message |-> message,
     success |-> TRUE]

\* A filter that compares the characters as they are.
FilterMemoriesCaseSensitive(memories, pattern) ==
    SelectSeq(memories, LAMBDA m : Contains(m.key, pattern))

\* matching = [m for m in memories if pattern.lower() in m["key"].lower()]
FilterMemories(memories, pattern) ==
    SelectSeq(memories, LAMBDA m : Contains(Lower(m.key), Lower(pattern)))

(***************************************************************************)
(* Operations.  A caller runs from one suspension point to the next in one *)
(* step: the local checks up to the first await, the setup routine, the    *)
(* opening of the scoped store, each backend primitive, the release.       *)
(***************************************************************************)

NoCall == [op |-> "none"]

MakeCall(op, namespace, key, content, pattern) ==
    [pattern |-> pattern, content |-> content, key |-> key,
     namespace |-> namespace, op |-> op]

\* A get_store that marks the setup done before it has run it.
BeginFlagFirst(p, c, chk) ==
    /\ pc[p] = "idle"
    /\ call' = [call EXCEPT ![p] = c]
    /\ ops' = [ops EXCEPT ![p] = <<>>]
    /\ IF chk # Proceed
       THEN /\ result' = [result EXCEPT ![p] = chk]
            /\ pc' = pc
            /\ setupDone' = setupDone
       ELSE /\ result' = [result EXCEPT ![p] = Pending]
            /\ pc' = [pc EXCEPT ![p] =
                        IF setupDone[FileStoreConnection] THEN "enter" ELSE "setup"]
            /\ setupDone' = [setupDone EXCEPT ![FileStoreConnection] = TRUE]
    /\ UNCHANGED << clock, written, clients, conn, instances, settings, store, setupRuns, handle,
                    lastWrite, vInput, vResult >>

\* The part of an operation up to its first await: the outcome `chk` of
\* its local checks, then `async with redis_connection.get_store()`, which
\* runs ensure_setup up to the test of _setup_done.
Begin(p, c, chk) ==
    /\ pc[p] = "idle"
    /\ call' = [call EXCEPT ![p] = c]
    /\ ops' = [ops EXCEPT ![p] = <<>>]
    /\ IF chk # Proceed
       THEN /\ result' = [result EXCEPT ![p] = chk]
            /\ pc' = pc
       ELSE /\ result' = [result EXCEPT ![p] = Pending]
            /\ pc' = [pc EXCEPT ![p] =
                        IF setupDone[FileStoreConnection] THEN "enter" ELSE "setup"]
    /\ UNCHANGED << clock, written, clients, conn, instances, settings, store, setupDone, setupRuns, handle, lastWrite,
                    vInput, vResult >>

ListNamespacesCall(p) ==
    Begin(p, MakeCall("list_namespaces", Empty, Empty, "", Empty), Proceed)

ListMemoriesCall(p, namespace) ==
    Begin(p, MakeCall("list_memories", namespace, Empty, "", Empty),
          ListMemoriesChecks(namespace))

GetMemoryCall(p, namespace, key) ==
    Begin(p, MakeCall("get_memory", namespace, key, "", Empty),
          GetMemoryChecks(namespace, key))

\* A put_memory that opens the store before it has checked anything.
PutMemoryCallUnchecked(p, namespace, key, content) ==
    Begin(p, MakeCall("put_memory", namespace, key, content, Empty), Proceed)

PutMemoryCall(p, namespace, key, content) ==
    Begin(p, MakeCall("put_memory", namespace, key, content, Empty),
          PutMemoryChecks(namespace, key))

UpdateMemoryCall(p, namespace, key, content) ==
    Begin(p, MakeCall("update_memory", namespace, key, content, Empty),
          UpdateMemoryChecks(namespace, key))

SearchMemoriesCall(p, namespace, pattern) ==
    Begin(p, MakeCall("search_memories", namespace, Empty, "", pattern),
          SearchMemoriesChecks(namespace))

\* ensure_setup, `await store.setup()`: the setup routine executes.
SetupRun(p) ==
    /\ pc[p] = "setup"
    /\ setupRuns' = [setupRuns EXCEPT ![FileStoreConnection] =
                        IF StoreHasSetup(FileStoreConnection) THEN @ + 1 ELSE @]
    /\ ops' = [ops EXCEPT ![p] = Append(@, "setup")]
    /\ pc' = [pc EXCEPT ![p] = "setup_exit"]
    /\ UNCHANGED << clock, written, clients, conn, instances, settings, store, setupDone, call, result, handle, lastWrite,
                    vInput, vResult >>

\* ensure_setup, after the setup store is closed: self._setup_done = True.
SetupFinish(p) ==
    /\ pc[p] = "setup_exit"
    /\ setupDone' = [setupDone EXCEPT ![FileStoreConnection] = TRUE]
    /\ pc' = [pc EXCEPT ![p] = "enter"]
    /\ UNCHANGED << clock, written, clients, conn, instances, settings, store, setupRuns, call, result, handle, ops,
                    lastWrite, vInput, vResult >>

\* The first backend primitive of each operation.
FirstPrimitive(op) ==
    CASE op = "get_memory" -> "get"
      [] op = "put_memory" -> "put"
      [] op = "update_memory" -> "check"
      [] OTHER -> "search"

\* get_store, `async with AsyncRedisStore.from_conn_string(...) as store`:
\* the scoped store is opened and handed to the operation.
Enter(p) ==
    /\ pc[p] = "enter"
    /\ handle' = [handle EXCEPT ![p] = FileStoreConnection]
    /\ ops' = [ops EXCEPT ![p] = Append(@, "open")]
    /\ pc' = [pc EXCEPT ![p] = FirstPrimitive(call[p].op)]
    /\ UNCHANGED << clock, written, clients, conn, instances, settings, store, setupDone, setupRuns, call, result,
                    lastWrite, vInput, vResult >>

\* A search prefix that names no tenant.
EveryTenantScope == << >>

\* The scope tuples of the primitives.
TenantScope == << USER_ID >>
NamespaceScope(namespace) == << USER_ID, namespace >>

\* What the search-based operations return from the records found.
SearchResult(c, items) ==
    CASE c.op = "list_namespaces" ->
            [status |-> "ok",
             namespaces |-> GroupNamespaces(ASearch(items, TenantScope), <<>>)]
      [] c.op = "list_memories" ->
            [status |-> "ok",
             memories |-> ShapeMemories(ASearch(items, NamespaceScope(c.namespace)),
                                        c.namespace)]
      [] c.op = "search_memories" ->
            [status |-> "ok",
             memories |-> FilterMemories(
                 ShapeMemories(ASearch(items, NamespaceScope(c.namespace)),
                               c.namespace),
                 c.pattern)]

\* list_namespaces, list_memories, search_memories: `await store.asearch`.
Search(p) ==
    /\ pc[p] = "search"
    /\ result' = [result EXCEPT ![p] = SearchResult(call[p], store[handle[p]])]
    /\ ops' = [ops EXCEPT ![p] = Append(@, "search")]
    /\ pc' = [pc EXCEPT ![p] = "exit"]
    /\ UNCHANGED << clock, written, clients, conn, instances, settings, store, setupDone, setupRuns, call, handle,
                    lastWrite, vInput, vResult >>

\* A get that refreshes the record it reads: its updated_at becomes the
\* backend's time at the read.
GetTouching(p) ==
    /\ pc[p] = "get"
    /\ LET item == AGet(store[handle[p]], NamespaceScope(call[p].namespace),
                        call[p].key)
       IN  /\ result' = [result EXCEPT ![p] =
                            IF item = NoItem THEN NotFoundResult
                            ELSE ShapeMemory(item, call[p].namespace, call[p].key)]
           /\ store' = [store EXCEPT ![handle[p]] =
                            IF item = NoItem THEN @
                            ELSE (@ \ {item}) \cup {[item EXCEPT !.updated_at = clock]}]
    /\ ops' = [ops EXCEPT ![p] = Append(@, "get")]
    /\ pc' = [pc EXCEPT ![p] = "exit"]
    /\ UNCHANGED << clock, written, clients, conn, instances, settings, setupDone,
                    setupRuns, call, handle, lastWrite, vInput, vResult >>

\* get_memory: `await store.aget`, FileNotFoundError when there is no record.
Get(p) ==
    /\ pc[p] = "get"
    /\ LET item == AGet(store[handle[p]], NamespaceScope(call[p].namespace),
                        call[p].key)
       IN  result' = [result EXCEPT ![p] =
                        IF item = NoItem THEN NotFoundResult
                        ELSE ShapeMemory(item, call[p].namespace, call[p].key)]
    /\ ops' = [ops EXCEPT ![p] = Append(@, "get")]
    /\ pc' = [pc EXCEPT ![p] = "exit"]
    /\ UNCHANGED << clock, written, clients, conn, instances, settings, store, setupDone, setupRuns, call, handle,
                    lastWrite, vInput, vResult >>

\* An update_memory that reads the record but writes whether or not it
\* exists.
CheckThenWriteAnyway(p) ==
    /\ pc[p] = "check"
    /\ result' = result
    /\ pc' = [pc EXCEPT ![p] = "put"]
    /\ ops' = [ops EXCEPT ![p] = Append(@, "get")]
    /\ UNCHANGED << clock, written, clients, conn, instances, settings, store, setupDone, setupRuns, call, handle,
                    lastWrite, vInput, vResult >>

\* update_memory: the existence check, `existing = await store.aget`.
Check(p) ==
    /\ pc[p] = "check"
    /\ LET existing == AGet(store[handle[p]], NamespaceScope(call[p].namespace),
                            call[p].key)
       IN  IF existing = NoItem
           THEN /\ result' = [result EXCEPT ![p] = NotFoundResult]
                /\ pc' = [pc EXCEPT ![p] = "exit"]
           ELSE /\ result' = result
                /\ pc' = [pc EXCEPT ![p] = "put"]
    /\ ops' = [ops EXCEPT ![p] = Append(@, "get")]
    /\ UNCHANGED << clock, written, clients, conn, instances, settings, store, setupDone, setupRuns, call, handle,
                    lastWrite, vInput, vResult >>

\* put_memory and update_memory: `await store.aput`.
Put(p) ==
    /\ pc[p] = "put"
    /\ store' = [store EXCEPT ![handle[p]] =
                    APut(@, NamespaceScope(call[p].namespace), call[p].key,
                         MakeValue(call[p].content), clock)]
    /\ written' = [written EXCEPT ![p] =
                    AGet(store'[handle[p]], NamespaceScope(call[p].namespace),
                         call[p].key)]
    /\ ops' = [ops EXCEPT ![p] = Append(@, "put")]
    /\ pc' = [pc EXCEPT ![p] = "reget"]
    /\ UNCHANGED << clock, clients, conn, instances, settings, setupDone, setupRuns, call, result, handle,
                    lastWrite, vInput, vResult >>

\* put_memory and update_memory: the re-read for the timestamps, and the
\* result dictionary.
Reget(p) ==
    /\ pc[p] = "reget"
    /\ result' = [result EXCEPT ![p] =
                    ShapeWritten(call[p].namespace, call[p].key,
                                 IF call[p].op = "put_memory"
                                 THEN "Memory created/updated successfully"
                                 ELSE "Memory updated successfully",
                                 AGet(store[handle[p]],
                                      NamespaceScope(call[p].namespace),
                                      call[p].key))]
    /\ ops' = [ops EXCEPT ![p] = Append(@, "get")]
    /\ pc' = [pc EXCEPT ![p] = "exit"]
    /\ UNCHANGED << clock, written, clients, conn, instances, settings, store, setupDone, setupRuns, call, handle,
                    lastWrite, vInput, vResult >>

\* The record of the latest successful write per (namespace, key).
NoteWrite(log, c) ==
    { w \in log : ~(w.namespace = c.namespace /\ w.key = c.key) }
        \cup { [content |-> c.content, key |-> c.key, namespace |-> c.namespace] }

\* The end of the `async with` block: the scoped store is released and the
\* operation returns its result or raises.
Exit(p) ==
    /\ pc[p] = "exit"
    /\ handle' = [handle EXCEPT ![p] = "none"]
    /\ ops' = [ops EXCEPT ![p] = Append(@, "close")]
    /\ pc' = [pc EXCEPT ![p] = "idle"]
    /\ written' = [written EXCEPT ![p] = NoItem]
    /\ lastWrite' = IF /\ call[p].op \in {"put_memory", "update_memory"}
                       /\ result[p].status = "ok"
                    THEN NoteWrite(lastWrite, call[p])
                    ELSE lastWrite
    /\ UNCHANGED << clock, clients, conn, instances, settings, store, setupDone, setupRuns, call, result,
                    vInput, vResult >>

(***************************************************************************)
(* The backend's clock                                                     *)
(***************************************************************************)

\* The latest time the clock is followed to.
MaxClock == 2

\* Time passes at the backend between two steps of the callers.
Tick ==
    /\ clock < MaxClock
    /\ clock' = clock + 1
    /\ UNCHANGED << written, clients, conn, instances, settings, store, setupDone,
                    setupRuns, pc, call, result, handle, ops, lastWrite, vInput,
                    vResult >>

(***************************************************************************)
(* The validator on its own                                                *)
(***************************************************************************)

\* Longest string handed to the validator.
MaxLen == 3

\* Characters the validator's inputs are built from.
Alphabet == { "a", "Z", "7", "_", "-", "/", " ", "\n", "." }

\* A caller builds an identifier character by character.
Extend(ch) ==
    /\ Len(vInput) < MaxLen
    /\ vInput' = Append(vInput, ch)
    /\ vResult' = "none"
    /\ UNCHANGED << clock, written, clients, conn, instances, settings, store, setupDone, setupRuns, pc, call, result,
                    handle, ops, lastWrite >>

\* self._validate_identifier(vInput, ...)
Validate ==
    /\ vResult = "none"
    /\ vResult' = ValidateIdentifier(vInput)
    /\ UNCHANGED << clock, written, clients, conn, instances, settings, store, setupDone, setupRuns, pc, call, result,
                    handle, ops, lastWrite, vInput >>

(***************************************************************************)
(* Backend failures: a primitive, the setup or the opening of the store    *)
(* raises an I/O error, which the operation lets through.                  *)
(***************************************************************************)

\* An exception of the backend library (connection refused, timeout, ...).
BackendErrorResult == [status |-> "Exception"]

\* An ensure_setup that marks the setup done although store.setup() raised.
SetupFaultMarkingDone(p) ==
    /\ pc[p] = "setup"
    /\ result' = [result EXCEPT ![p] = BackendErrorResult]
    /\ ops' = [ops EXCEPT ![p] = Append(@, "setup_fault")]
    /\ pc' = [pc EXCEPT ![p] = "idle"]
    /\ setupDone' = [setupDone EXCEPT ![FileStoreConnection] = TRUE]
    /\ UNCHANGED << clock, written, clients, conn, instances, settings, store,
                    setupRuns, call, handle, lastWrite, vInput, vResult >>

\* ensure_setup: `await store.setup()` raises; _setup_done stays unset and
\* the operation ends before it has a scoped store.
SetupFault(p) ==
    /\ pc[p] = "setup"
    /\ result' = [result EXCEPT ![p] = BackendErrorResult]
    /\ ops' = [ops EXCEPT ![p] = Append(@, "setup_fault")]
    /\ pc' = [pc EXCEPT ![p] = "idle"]
    /\ UNCHANGED << clock, written, clients, conn, instances, settings, store, setupDone,
                    setupRuns, call, handle, lastWrite, vInput, vResult >>

\* get_store: opening the scoped store raises.
OpenFault(p) ==
    /\ pc[p] = "enter"
    /\ result' = [result EXCEPT ![p] = BackendErrorResult]
    /\ ops' = [ops EXCEPT ![p] = Append(@, "open_fault")]
    /\ pc' = [pc EXCEPT ![p] = "idle"]
    /\ UNCHANGED << clock, written, clients, conn, instances, settings, store, setupDone,
                    setupRuns, call, handle, lastWrite, vInput, vResult >>

\* asearch, aget or aput raises before it takes effect; the exception
\* leaves the `async with` block.
Fault(p) ==
    /\ pc[p] \in {"search", "get", "check", "put", "reget"}
    /\ result' = [result EXCEPT ![p] = BackendErrorResult]
    /\ ops' = [ops EXCEPT ![p] = Append(@, "fault")]
    /\ pc' = [pc EXCEPT ![p] = "exit"]
    /\ UNCHANGED << clock, written, clients, conn, instances, settings, store, setupDone,
                    setupRuns, call, handle, lastWrite, vInput, vResult >>

(***************************************************************************)
(* The MCP tools (server.py): each awaits one FileStore operation and      *)
(* turns what it returns or raises into the tool's response.               *)
(***************************************************************************)

\* A call made through a tool: the FileStore call with the tool's name.
ToolArgs(tool, c) ==
    [pattern |-> c.pattern, content |-> c.content, key |-> c.key,
     namespace |-> c.namespace, op |-> c.op, tool |-> tool]

\* The error dictionaries of read_file and ls, and of write_file and
\* edit_file.
ReadEnvelope(type) == [type |-> type, error |-> TRUE]
WriteEnvelope(type) == [success |-> FALSE, type |-> type, error |-> TRUE]

\* Every configured entry, whatever its category.
GetFilesOfAnyCategory(memory_category) ==
    settings.file_config

\* FileConfigManager.get_files_by_category
GetFilesByCategory(memory_category) ==
    SelectSeq(settings.file_config,
              LAMBDA mem : mem.memory_category = memory_category)

\* FileConfigManager.get_all_categories, in the order of first appearance.
RECURSIVE Categories(_, _)
Categories(files, seen) ==
    IF files = <<>> THEN seen
    ELSE Categories(Tail(files),
                    IF InList(Head(files).memory_category, seen) THEN seen
                    ELSE Append(seen, Head(files).memory_category))

GetAllCategories == Categories(settings.file_config, <<>>)

FileNames(files) == [i \in 1..Len(files) |-> files[i].file_name]

\* ls without show_all_available: the configured files, of every category
\* or of the one given; the store is not consulted.
LsConfigured(memory_category) ==
    IF memory_category = Empty
    THEN IF settings.file_config = <<>>
         THEN [files |-> <<>>, status |-> "ok", type |-> "configured_files",
               count |-> 0]
         ELSE [status |-> "ok", type |-> "configured_files",
               count |-> Len(settings.file_config),
               categories_count |-> Len(GetAllCategories),
               files_by_category |->
                   [i \in 1..Len(GetAllCategories) |->
                       [memory_category |-> GetAllCategories[i],
                        files |-> FileNames(GetFilesByCategory(GetAllCategories[i]))]]]
    ELSE [memory_category |-> memory_category,
          files |-> FileNames(GetFilesByCategory(memory_category)),
          status |-> "ok", type |-> "category_files",
          count |-> Len(GetFilesByCategory(memory_category))]

\* ls with show_all_available: the result of list_namespaces, each entry
\* annotated with `accessible` and `configured`.
LsAnnotated(namespaces) ==
    [status |-> "ok",
     namespaces |->
        [i \in 1..Len(namespaces) |->
            [name |-> namespaces[i].name,
             file_count |-> namespaces[i].file_count,
             accessible |->
                IF GetAllowedFiles = <<>> THEN TRUE
                ELSE IF InList(namespaces[i].name, GetAllCategories)
                THEN \E j \in 1..Len(GetFilesByCategory(namespaces[i].name)) :
                        InList(GetFilesByCategory(namespaces[i].name)[j].file_name,
                               GetAllowedFiles)
                ELSE FALSE,
             configured |-> InList(namespaces[i].name, GetAllCategories)]],
     type |-> "all_namespaces", count |-> Len(namespaces)]

\* The except clauses of the four tools, on what the awaited call raised.
ReadFileExcept(r) ==
    IF r.status = "FileNotFoundError" THEN ReadEnvelope("not_found")
    ELSE IF r.status = "PermissionError" THEN ReadEnvelope("permission_denied")
    ELSE ReadEnvelope("error")

WriteFileExcept(r) ==
    IF r.status = "PermissionError" THEN WriteEnvelope("permission_denied")
    ELSE IF r.status = "ValueError" THEN WriteEnvelope("validation_error")
    ELSE WriteEnvelope("error")

\* An edit_file whose handler has no clause for FileNotFoundError.
EditFileExceptNoNotFound(r) ==
    IF r.status = "PermissionError" THEN WriteEnvelope("permission_denied")
    ELSE IF r.status = "ValueError" THEN WriteEnvelope("validation_error")
    ELSE WriteEnvelope("error")

EditFileExcept(r) ==
    IF r.status = "FileNotFoundError" THEN WriteEnvelope("not_found")
    ELSE IF r.status = "PermissionError" THEN WriteEnvelope("permission_denied")
    ELSE IF r.status = "ValueError" THEN WriteEnvelope("validation_error")
    ELSE WriteEnvelope("error")

\* What the tool of call c returns when the call it awaits ended with r.
ToolReply(c, r) ==
    CASE c.tool = "ls" ->
            IF c.op = "none" THEN r
            ELSE IF r.status = "ok" THEN LsAnnotated(r.namespaces)
            ELSE ReadEnvelope("error")
      [] c.tool = "read_file" ->
            IF r.status = "ok" THEN r ELSE ReadFileExcept(r)
      [] c.tool = "write_file" ->
            IF r.status = "ok" THEN r ELSE WriteFileExcept(r)
      [] c.tool = "edit_file" ->
            IF r.status = "ok" THEN r ELSE EditFileExcept(r)

\* ls(memory_category, show_all_available)
LsCall(p, memory_category, show_all_available) ==
    IF show_all_available
    THEN Begin(p, ToolArgs("ls", MakeCall("list_namespaces", Empty, Empty, "", Empty)),
               Proceed)
    ELSE Begin(p, ToolArgs("ls", MakeCall("none", memory_category, Empty, "", Empty)),
               LsConfigured(memory_category))

\* read_file(memory_category, file_name)
ReadFileCall(p, memory_category, file_name) ==
    Begin(p, ToolArgs("read_file",
                      MakeCall("get_memory", memory_category, file_name, "", Empty)),
          GetMemoryChecks(memory_category, file_name))

\* write_file(memory_category, file_name, content)
WriteFileCall(p, memory_category, file_name, content) ==
    Begin(p, ToolArgs("write_file",
                      MakeCall("put_memory", memory_category, file_name, content, Empty)),
          PutMemoryChecks(memory_category, file_name))

\* edit_file(memory_category, file_name, content)
EditFileCall(p, memory_category, file_name, content) ==
    Begin(p, ToolArgs("edit_file",
                      MakeCall("update_memory", memory_category, file_name, content,
                               Empty)),
          UpdateMemoryChecks(memory_category, file_name))

(***************************************************************************)
(* The backend selector called on its own                                  *)
(***************************************************************************)

\* An import that builds a new connector object every time.
ImportConnectorAgain(n) == n + 1

\* `from database.<module> import <connector>`: the module body, which
\* builds the connector object, runs on the first import only.
ImportConnector(n) == IF n = 0 THEN 1 ELSE n

\* get_store_connection()
GetStoreConnectionCall(p) ==
    /\ pc[p] = "idle"
    /\ call' = [call EXCEPT ![p] = [op |-> "get_store_connection"]]
    /\ ops' = [ops EXCEPT ![p] = <<>>]
    /\ LET c == GetStoreConnection(settings.BACKEND)
       IN  IF c = "ValueError"
           THEN /\ result' = [result EXCEPT ![p] = ValueErrorResult]
                /\ instances' = instances
           ELSE /\ instances' = [instances EXCEPT ![c] = ImportConnector(@)]
                /\ result' = [result EXCEPT ![p] =
                                [status |-> "ok",
                                 connection |-> [connector |-> c,
                                                 instance |-> instances'[c]]]]
    /\ UNCHANGED << clock, written, clients, conn, settings, store, setupDone, setupRuns, pc,
                    handle, lastWrite, vInput, vResult >>

(***************************************************************************)
(* The connectors on their own: get_store of each backend module, used by  *)
(* a caller as `async with connection.get_store() as store: <body>`.       *)
(***************************************************************************)

\* The connection a from_conn_string store opens for one caller.
OwnConnection(c, p) == [connector |-> c, owner |-> p]

\* MongoDBConnection._client: one MongoClient kept on the connector object.
SharedClient(c) == [connector |-> c, owner |-> "connector"]

\* The connection under the store a connector builds for caller p: Redis
\* and PostgreSQL open one per store, MongoDB wraps the connector's client.
ScopedConnection(c, p) ==
    IF c = "mongodb" THEN SharedClient(c) ELSE OwnConnection(c, p)

\* How the body of the `async with` block can end.
BodyOutcomes == { "ok", "FileNotFoundError", "Exception", "CancelledError" }

\* get_store up to the first await: ensure_setup's test of _setup_done.
GetStoreCall(p, c) ==
    /\ pc[p] = "idle"
    /\ call' = [call EXCEPT ![p] = [connector |-> c, op |-> "get_store"]]
    /\ result' = [result EXCEPT ![p] = Pending]
    /\ ops' = [ops EXCEPT ![p] = <<>>]
    /\ pc' = [pc EXCEPT ![p] = IF setupDone[c] THEN "gs_open" ELSE "gs_setup"]
    /\ UNCHANGED << clock, written, clients, conn, instances, settings, store, setupDone,
                    setupRuns, handle, lastWrite, vInput, vResult >>

\* ensure_setup: the setup store is built (Redis and PostgreSQL open a
\* connection for it, MongoDB creates the client when there is none) and
\* store.setup() executes.
GetStoreSetup(p) ==
    /\ pc[p] = "gs_setup"
    /\ LET c == call[p].connector
       IN  /\ clients' = clients \cup { ScopedConnection(c, p) }
           /\ setupRuns' = [setupRuns EXCEPT ![c] =
                               IF StoreHasSetup(c) THEN @ + 1 ELSE @]
    /\ ops' = [ops EXCEPT ![p] = Append(@, "setup")]
    /\ pc' = [pc EXCEPT ![p] = "gs_setup_exit"]
    /\ UNCHANGED << clock, written, conn, instances, settings, store, setupDone, call, result,
                    handle, lastWrite, vInput, vResult >>

\* ensure_setup: the `async with` of Redis and PostgreSQL closes the setup
\* store, MongoDB closes nothing; then self._setup_done = True.
GetStoreSetupFinish(p) ==
    /\ pc[p] = "gs_setup_exit"
    /\ LET c == call[p].connector
       IN  /\ clients' = IF c = "mongodb" THEN clients
                         ELSE clients \ { OwnConnection(c, p) }
           /\ setupDone' = [setupDone EXCEPT ![c] = TRUE]
    /\ pc' = [pc EXCEPT ![p] = "gs_open"]
    /\ UNCHANGED << clock, written, conn, instances, settings, store, setupRuns, call, result,
                    handle, ops, lastWrite, vInput, vResult >>

\* get_store: the scoped store is built and yielded to the body.
GetStoreOpen(p) ==
    /\ pc[p] = "gs_open"
    /\ LET c == call[p].connector
       IN  /\ clients' = clients \cup { ScopedConnection(c, p) }
           /\ conn' = [conn EXCEPT ![p] = ScopedConnection(c, p)]
           /\ handle' = [handle EXCEPT ![p] = c]
    /\ ops' = [ops EXCEPT ![p] = Append(@, "open")]
    /\ pc' = [pc EXCEPT ![p] = "gs_body"]
    /\ UNCHANGED << clock, written, instances, settings, store, setupDone, setupRuns, call,
                    result, lastWrite, vInput, vResult >>

\* The body ends: it returns, raises FileNotFoundError, fails on backend
\* I/O, or is cancelled at an await.
GetStoreBody(p, how) ==
    /\ pc[p] = "gs_body"
    /\ result' = [result EXCEPT ![p] = [status |-> how]]
    /\ ops' = [ops EXCEPT ![p] = Append(@, "body")]
    /\ pc' = [pc EXCEPT ![p] = "gs_exit"]
    /\ UNCHANGED << clock, written, clients, conn, instances, settings, store, setupDone,
                    setupRuns, call, handle, lastWrite, vInput, vResult >>

\* get_store after the yield: the `async with` of Redis and PostgreSQL
\* closes the store's connection; MongoDB runs `finally: pass`.
GetStoreExit(p) ==
    /\ pc[p] = "gs_exit"
    /\ clients' = IF handle[p] = "mongodb" THEN clients
                  ELSE clients \ { conn[p] }
    /\ conn' = [conn EXCEPT ![p] = NoConn]
    /\ handle' = [handle EXCEPT ![p] = "none"]
    /\ ops' = [ops EXCEPT ![p] = Append(@, "close")]
    /\ pc' = [pc EXCEPT ![p] = "idle"]
    /\ UNCHANGED << clock, written, instances, settings, store, setupDone, setupRuns, call,
                    result, lastWrite, vInput, vResult >>

(***************************************************************************)
(* Specifications                                                          *)
(***************************************************************************)

\* The process after its modules are imported, under the configuration sc.
InitWith(sc) ==
    /\ settings = [BACKEND |-> sc.BACKEND, ALLOWED_FILES |-> sc.ALLOWED_FILES,
                   READ_ONLY_FILES |-> sc.READ_ONLY_FILES,
                   file_config |-> LoadConfigs(sc.files,
                                       ParseCommaList(sc.ALLOWED_FILES))]
    /\ store = [c \in Connectors |->
                    IF c = FileStoreConnection THEN sc.items ELSE {}]
    /\ setupDone = [c \in Connectors |-> FALSE]
    /\ setupRuns = [c \in Connectors |-> 0]
    /\ pc = [p \in Procs |-> "idle"]
    /\ call = [p \in Procs |-> NoCall]
    /\ result = [p \in Procs |-> Pending]
    /\ handle = [p \in Procs |-> "none"]
    /\ ops = [p \in Procs |-> <<>>]
    /\ lastWrite = {}
    /\ vInput = <<>>
    /\ vResult = "none"
    /\ clients = {}
    /\ conn = [p \in Procs |-> NoConn]
    /\ instances = [c \in Connectors |-> IF c = FileStoreConnection THEN 1 ELSE 0]
    /\ clock = 0
    /\ written = [p \in Procs |-> NoItem]

Init == \E sc \in Scenarios : InitWith(sc)

\* A caller resumes at its suspension point.
Step(p) ==
    \/ SetupRun(p)
    \/ SetupFinish(p)
    \/ Enter(p)
    \/ Search(p)
    \/ Get(p)
    \/ Check(p)
    \/ Put(p)
    \/ Reget(p)
    \/ Exit(p)

\* A caller starts an operation with arguments from the given sets.
Invoke(p, NS, KS, CS, PS) ==
    \/ ListNamespacesCall(p)
    \/ \E ns \in NS : ListMemoriesCall(p, ns)
    \/ \E ns \in NS, k \in KS : GetMemoryCall(p, ns, k)
    \/ \E ns \in NS, k \in KS, c \in CS : PutMemoryCall(p, ns, k, c)
    \/ \E ns \in NS, k \in KS, c \in CS : UpdateMemoryCall(p, ns, k, c)
    \/ \E ns \in NS, pat \in PS : SearchMemoriesCall(p, ns, pat)

\* One caller at a time, over all the inputs.
Next ==
    \/ Invoke("t1", NsInputs, KeyInputs, Contents, Patterns)
    \/ Step("t1")

Spec == Init /\ [][Next]_vars

\* Two callers in flight at once, on one namespace.
NextConc ==
    \E p \in Procs :
        \/ Invoke(p, {NsPrefs}, {KeyTone}, Contents, {Empty})
        \/ Step(p)

SpecConc == Init /\ [][NextConc]_vars

\* The validator alone, over every string up to MaxLen.
NextValidate ==
    \/ \E ch \in Alphabet : Extend(ch)
    \/ Validate

SpecValidate == Init /\ [][NextValidate]_vars

\* One caller writing many keys of one namespace and listing them.
ManyKeys ==
    { <<"a">>, <<"b">>, <<"c">>, <<"d">>, <<"e">>, <<"f">>,
      <<"g">>, <<"h">>, <<"i">>, <<"j">>, <<"k">> }

InitList ==
    /\ Init
    /\ settings.READ_ONLY_FILES = Empty
    /\ settings.ALLOWED_FILES = Empty

NextList ==
    \/ \E k \in ManyKeys : PutMemoryCall("t1", NsPrefs, k, "concise")
    \/ ListMemoriesCall("t1", NsPrefs)
    \/ SetupRun("t1")
    \/ SetupFinish("t1")
    \/ Enter("t1")
    \/ Search("t1")
    \/ Put("t1")
    \/ Reget("t1")
    \/ Exit("t1")

SpecList == InitList /\ [][NextList]_vars

\* Two callers writing the keys of one namespace, with nothing read-only.
NextWriters ==
    \E p \in Procs :
        \/ \E k \in {KeyTone, KeyNotes}, c \in Contents :
                PutMemoryCall(p, NsPrefs, k, c)
        \/ SetupRun(p)
        \/ SetupFinish(p)
        \/ Enter(p)
        \/ Put(p)
        \/ Reget(p)
        \/ Exit(p)

SpecWriters == InitList /\ [][NextWriters]_vars

\* One client of the server calling the tools, with a backend that can fail.
ToolCategories == { Empty, NsPrefs }
ToolNamespaces == { NsPrefs, NsSlash }
ToolFiles == { KeyTone, KeyNotes }

NextServer ==
    \/ \E cat \in ToolCategories, all \in BOOLEAN : LsCall("t1", cat, all)
    \/ \E ns \in ToolNamespaces, k \in ToolFiles : ReadFileCall("t1", ns, k)
    \/ \E ns \in ToolNamespaces, k \in ToolFiles : WriteFileCall("t1", ns, k, "concise")
    \/ \E ns \in ToolNamespaces, k \in ToolFiles : EditFileCall("t1", ns, k, "direct")
    \/ Step("t1")
    \/ SetupFault("t1")
    \/ OpenFault("t1")
    \/ Fault("t1")

SpecServer == Init /\ [][NextServer]_vars

\* Values of settings.BACKEND the selector is tried on.
BackendNames ==
    { BackendRedis, << "R","E","D","I","S" >>, << "R","e","d","i","s" >>,
      BackendPostgres, BackendPostgresMixed,
      BackendMongo, << "M","o","n","g","o","D","B" >>,
      BackendUnknown, Empty, BackendRedis \o Blank, << "m","o","n","g","o" >>,
      << "p","o","s","t","g","r","e","s" >> }

InitSelect ==
    \E sc \in Scenarios, b \in BackendNames : InitWith([sc EXCEPT !.BACKEND = b])

\* Two callers asking the selector for the connector, again and again.
NextSelect == \E p \in Procs : GetStoreConnectionCall(p)

SpecSelect == InitSelect /\ [][NextSelect]_vars

\* Two callers starting on a fresh process whose setup can fail.
NextStartup ==
    \E p \in Procs :
        \/ GetMemoryCall(p, NsPrefs, KeyTone)
        \/ PutMemoryCall(p, NsPrefs, KeyTone, "concise")
        \/ SetupRun(p)
        \/ SetupFault(p)
        \/ SetupFinish(p)
        \/ Enter(p)
        \/ Get(p)
        \/ Put(p)
        \/ Reget(p)
        \/ Exit(p)

SpecStartup == InitList /\ [][NextStartup]_vars

\* Two callers using the connectors directly, each backend in turn.
NextConnectors ==
    \E p \in Procs :
        \/ \E c \in Connectors : GetStoreCall(p, c)
        \/ GetStoreSetup(p)
        \/ GetStoreSetupFinish(p)
        \/ GetStoreOpen(p)
        \/ \E how \in BodyOutcomes : GetStoreBody(p, how)
        \/ GetStoreExit(p)

\* The connectors do not read the file settings: one configuration.
InitConnectors ==
    /\ Init
    /\ settings.BACKEND = BackendMongo

SpecConnectors == InitConnectors /\ [][NextConnectors]_vars

\* Two callers reading and writing the records of one namespace, with a
\* backend whose primitives can fail.
NextLifecycle ==
    \E p \in Procs :
        \/ ListNamespacesCall(p)
        \/ GetMemoryCall(p, NsPrefs, KeyTone)
        \/ \E k \in {KeyTone, KeyNotes} : PutMemoryCall(p, NsPrefs, k, "concise")
        \/ UpdateMemoryCall(p, NsPrefs, KeyTone, "direct")
        \/ Step(p)
        \/ Fault(p)

SpecLifecycle == Init /\ [][NextLifecycle]_vars

\* Two callers writing one record while the backend's time passes.
NextStamps ==
    \/ Tick
    \/ \E p \in Procs :
        \/ PutMemoryCall(p, NsPrefs, KeyTone, "concise")
        \/ UpdateMemoryCall(p, NsPrefs, KeyTone, "direct")
        \/ SetupRun(p)
        \/ SetupFinish(p)
        \/ Enter(p)
        \/ Check(p)
        \/ Put(p)
        \/ Reget(p)
        \/ Exit(p)

SpecStamps == InitList /\ [][NextStamps]_vars

\* A caller reading while another writes, as time passes, with a backend
\* whose primitives can fail.
NextReaders ==
    \/ Tick
    \/ ListNamespacesCall("t1")
    \/ ListMemoriesCall("t1", NsPrefs)
    \/ \E k \in {KeyTone, KeyNotes} : GetMemoryCall("t1", NsPrefs, k)
    \/ SearchMemoriesCall("t1", NsPrefs, << "T","O" >>)
    \/ PutMemoryCall("t2", NsPrefs, KeyNotes, "concise")
    \/ \E p \in Procs :
        \/ SetupRun(p)
        \/ SetupFinish(p)
        \/ Enter(p)
        \/ Search(p)
        \/ Get(p)
        \/ Put(p)
        \/ Reget(p)
        \/ Exit(p)
        \/ Fault(p)

SpecReaders == Init /\ [][NextReaders]_vars

\* Other tenant ids that share the backend: an unrelated one, and one that
\* the configured id is a string prefix of.
OtherUser == << "o","t","h","e","r" >>
LongerUser == USER_ID \o << "2" >>

\* Records of the other tenants, under the namespace and keys the caller
\* uses.
ForeignItems ==
    { MakeItem(<< OtherUser, NsPrefs >>, KeyTone, MakeValue("theirs"), 0, 0),
      MakeItem(<< LongerUser, NsPrefs >>, KeyNotes, MakeValue("theirs"), 0, 0) }

InitTenants ==
    InitWith([BACKEND |-> BackendRedis, ALLOWED_FILES |-> Empty,
              READ_ONLY_FILES |-> Empty, items |-> ForeignItems, files |-> <<>>])

\* One caller on a backend that also holds records of other tenants.
NextTenants ==
    \/ Invoke("t1", {NsPrefs}, {KeyTone, KeyNotes}, Contents, {Empty})
    \/ Step("t1")

SpecTenants == InitTenants /\ [][NextTenants]_vars

(***************************************************************************)
(* Properties                                                              *)
(***************************************************************************)

\* The caller p has just been resumed from "idle": it started a call.
Called(p) ==
    /\ pc[p] = "idle"
    /\ << call[p], result[p], ops[p], pc[p] >> #
           << call'[p], result'[p], ops'[p], pc'[p] >>

\* The call of p has gone through its backend primitives.
Returned(p, op) ==
    /\ call[p].op = op
    /\ pc[p] \in {"exit", "idle"}
    /\ result[p] # Pending

IsWrite(c) == c.op \in {"put_memory", "update_memory"}

HasRecord(items, namespace, key) ==
    \E it \in items : it.namespace = NamespaceScope(namespace) /\ it.key = key

AllIdentChars(s) == \A i \in 1..Len(s) : s[i] \in IdentChars

ValidIdentifier(s) == s # <<>> /\ AllIdentChars(s)

\* C1: after successful put_memory / update_memory calls, get_memory on the
\* same (namespace, key) succeeds and returns the content of the most
\* recent successful write.
C1_GetReturnsLastWrite ==
    \A p \in Procs :
        Returned(p, "get_memory") =>
            \A w \in lastWrite :
                (w.namespace = call[p].namespace /\ w.key = call[p].key) =>
                    /\ result[p].status = "ok"
                    /\ result[p].content = w.content

\* C1 witness: a get_memory has returned the content of the latest write of
\* its record.
C1_Witness ==
    /\ Returned("t1", "get_memory")
    /\ result["t1"].status = "ok"
    /\ result["t1"].content = "direct"
    /\ \E w \in lastWrite :
        /\ w.namespace = call["t1"].namespace
        /\ w.key = call["t1"].key
        /\ w.content = "direct"

C3_ReadOnlyAnyIdentifier ==
    [][\A p \in Procs :
        ( /\ Called(p)
          /\ IsWrite(call'[p])
          /\ InList(call'[p].namespace \o Slash \o call'[p].key, GetReadOnlyFiles) )
        => ( /\ result'[p] = ReadOnlyResult
             /\ store' = store )
      ]_vars

\* C3 amended: put_memory and update_memory on a (namespace, key) of valid
\* identifiers whose "namespace/key" is in the read-only set fail with
\* PermissionError (read-only) and leave the store unchanged.
C3_ReadOnlyRejected ==
    [][\A p \in Procs :
        ( /\ Called(p)
          /\ IsWrite(call'[p])
          /\ ValidateIdentifier(call'[p].namespace) = "ok"
          /\ ValidateIdentifier(call'[p].key) = "ok"
          /\ InList(call'[p].namespace \o Slash \o call'[p].key, GetReadOnlyFiles) )
        => ( /\ result'[p] = ReadOnlyResult
             /\ pc'[p] = "idle"
             /\ store' = store )
      ]_vars

\* C3 witness: a write on the read-only key was rejected and the record
\* still holds its prior content.
C3_Witness ==
    /\ call["t1"].op = "update_memory"
    /\ result["t1"] = ReadOnlyResult
    /\ pc["t1"] = "idle"
    /\ SeedItem \in store[FileStoreConnection]

\* The namespaces that hold a record of the tenant, and their records.
NamespacesPresent(items) ==
    { it.namespace[2] : it \in { x \in items : IsPrefix(TenantScope, x.namespace)
                                               /\ Len(x.namespace) >= 2 } }

RecordsUnder(items, namespace) ==
    { it \in items : it.namespace = NamespaceScope(namespace) }

\* C4: list_namespaces returns exactly one entry per namespace that holds a
\* record of the tenant, named after that namespace, with file_count the
\* number of records in it.
C4_ListNamespacesExact ==
    \A p \in Procs :
        (Returned(p, "list_namespaces") /\ pc[p] = "idle") =>
            LET out == result[p].namespaces
                items == store[FileStoreConnection]
            IN  /\ Len(out) = Cardinality(NamespacesPresent(items))
                /\ \A ns \in NamespacesPresent(items) :
                     \E i \in 1..Len(out) :
                        /\ out[i].name = ns
                        /\ out[i].file_count = Cardinality(RecordsUnder(items, ns))

\* C5: every scoped store an operation holds comes from the connector the
\* backend selector returns for settings.BACKEND.
C5_HandleFromSelectedBackend ==
    \A p \in Procs :
        (handle[p] # "none" /\ GetStoreConnection(settings.BACKEND) \in Connectors)
            => handle[p] = GetStoreConnection(settings.BACKEND)

\* is_key_allowed of the access policy: the allow-list is empty or holds
\* the key.
KeyAllowed(key) ==
    GetAllowedFiles = <<>> \/ InList(key, GetAllowedFiles)

\* C6: get_memory, put_memory and update_memory on a key the allow-list
\* does not permit are rejected and never reach the backend.
C6_KeyGating ==
    \A p \in Procs :
        ( /\ call[p].op \in {"get_memory", "put_memory", "update_memory"}
          /\ ~KeyAllowed(call[p].key) )
        => ( /\ ops[p] = <<>>
             /\ pc[p] = "idle"
             /\ result[p].status \in {"PermissionError", "ValueError"} )

\* C7: the validator accepts a string iff it is non-empty and all of its
\* characters are in [A-Za-z0-9_-].
C7_ValidatorExact ==
    vResult # "none" =>
        (vResult = "ok" <=> ValidIdentifier(vInput))

\* C8: list_memories(ns) returns one entry per distinct key stored under
\* ns, each exactly once, and no key of another namespace.
C8_ListMemoriesCount ==
    \A p \in Procs :
        (Returned(p, "list_memories") /\ pc[p] = "idle" /\ result[p].status = "ok") =>
            LET out == result[p].memories
                recs == RecordsUnder(store[FileStoreConnection], call[p].namespace)
            IN  /\ Len(out) = Cardinality(recs)
                /\ \A i, j \in 1..Len(out) : out[i].key = out[j].key => i = j
                /\ \A i \in 1..Len(out) : \E it \in recs : it.key = out[i].key

\* C9: the setup routine of a connector executes at most once.
C9_SetupAtMostOnce ==
    \A c \in Connectors : setupRuns[c] <= 1

\* The local failures of a call: a malformed identifier, a read-only target.
InvalidCall(c) ==
    \/ /\ c.op # "list_namespaces"
       /\ ValidateIdentifier(c.namespace) # "ok"
    \/ /\ c.op \in {"get_memory", "put_memory", "update_memory"}
       /\ ValidateIdentifier(c.key) # "ok"

ReadOnlyCall(c) ==
    /\ IsWrite(c)
    /\ ~InvalidCall(c)
    /\ IsReadOnly(c.namespace, c.key)

\* C10: an operation that fails validation or policy returns its error
\* without any backend interaction: no setup, no scoped store, no
\* primitive; the store and the setup flag are unchanged.
C10_LocalFailureTouchesNothing ==
    [][\A p \in Procs :
        ( /\ Called(p)
          /\ (InvalidCall(call'[p]) \/ ReadOnlyCall(call'[p])) )
        => ( /\ IF InvalidCall(call'[p]) THEN result'[p].status = "ValueError"
                ELSE result'[p] = ReadOnlyResult
             /\ pc'[p] = "idle"
             /\ ops'[p] = <<>>
             /\ handle' = handle
             /\ store' = store
             /\ setupDone' = setupDone
             /\ setupRuns' = setupRuns )
      ]_vars

\* C10 witness: a put_memory rejected for a malformed identifier, with no
\* backend interaction recorded and the setup never run.
C10_Witness ==
    /\ call["t1"].op = "put_memory"
    /\ result["t1"].status = "ValueError"
    /\ pc["t1"] = "idle"
    /\ ops["t1"] = <<>>
    /\ handle["t1"] = "none"
    /\ ~setupDone[FileStoreConnection]
    /\ setupRuns[FileStoreConnection] = 0

\* C11: on every backend a scoped handle is the caller's own and is released
\* when the operation finishes, however it ends: no connection is held by
\* two callers in flight, a finished caller holds none, and when every
\* caller has finished no connection is open.
C11_HandlesScoped ==
    /\ \A p \in Procs : pc[p] = "idle" => conn[p] = NoConn
    /\ \A p, q \in Procs : (p # q /\ conn[p] # NoConn) => conn[p] # conn[q]
    /\ (\A p \in Procs : pc[p] = "idle") => clients = {}

\* The put_memory of p has executed its aput.
HasPut(p) ==
    /\ call[p].op = "put_memory"
    /\ \/ pc[p] \in {"reget", "exit"}
       \/ pc[p] = "idle" /\ result[p].status = "ok"

\* The content stored under (namespace, key).
StoredContent(items, namespace, key) ==
    AGet(items, NamespaceScope(namespace), key).value.content

\* The records other than (namespace, key).
OtherRecords(items, namespace, key) ==
    { it \in items : ~(it.namespace = NamespaceScope(namespace) /\ it.key = key) }

\* C12: two put_memory calls in flight on one (namespace, key) with contents
\* c1 and c2 leave exactly c1 or c2 stored, in every interleaving of their
\* backend steps; each reports success; and a write step changes no record
\* but its own.
C12_ConcurrentPuts ==
    /\ [](\A p, q \in Procs :
            ( /\ p # q
              /\ HasPut(p) /\ HasPut(q)
              /\ call[p].namespace = call[q].namespace
              /\ call[p].key = call[q].key )
            => StoredContent(store[FileStoreConnection], call[p].namespace,
                             call[p].key) \in { call[p].content, call[q].content })
    /\ [](\A p \in Procs :
            (call[p].op = "put_memory" /\ pc[p] = "idle")
            => /\ result[p].status = "ok"
               /\ result[p].success = TRUE
               /\ result[p].namespace = call[p].namespace
               /\ result[p].key = call[p].key
               /\ result[p].message = "Memory created/updated successfully")
    /\ [][\A p \in Procs :
            (pc[p] = "put" /\ pc'[p] = "reget")
            => /\ StoredContent(store'[FileStoreConnection], call[p].namespace,
                                call[p].key) = call[p].content
               /\ OtherRecords(store'[FileStoreConnection], call[p].namespace,
                               call[p].key)
                    = OtherRecords(store[FileStoreConnection], call[p].namespace,
                                   call[p].key)
      ]_vars

\* C12 witness: both callers are between the aput and the re-read of
\* put_memory on ("prefs", "tone") with different contents, while another
\* record of the namespace exists.
C12_Witness ==
    /\ pc["t1"] = "reget" /\ pc["t2"] = "reget"
    /\ call["t1"] = MakeCall("put_memory", NsPrefs, KeyTone, "concise", Empty)
    /\ call["t2"] = MakeCall("put_memory", NsPrefs, KeyTone, "direct", Empty)
    /\ HasRecord(store[FileStoreConnection], NsPrefs, KeyNotes)

\* Two characters that are equal up to the case of a letter.
SameLetter(a, b) ==
    \/ a = b
    \/ \E i \in 1..Len(UpperLetters) : {a, b} = {UpperLetters[i], LowerLetters[i]}

\* pattern occurs in text as a contiguous substring, case ignored.
OccursIgnoringCase(pattern, text) ==
    \E k \in 0..(Len(text) - Len(pattern)) :
        \A j \in 1..Len(pattern) : SameLetter(text[k + j], pattern[j])

\* What list_memories(namespace) returns on the records `items`.
ListMemoriesOf(items, namespace) ==
    SearchResult(MakeCall("list_memories", namespace, Empty, "", Empty),
                 items).memories

\* C13: search_memories(namespace, pattern) returns exactly the entries of
\* list_memories(namespace) whose key contains the pattern as a substring,
\* case ignored, in the same order; the empty pattern returns them all.
C13_SearchFiltersList ==
    \A p \in Procs :
        (Returned(p, "search_memories") /\ pc[p] = "idle" /\ result[p].status = "ok") =>
            LET listed == ListMemoriesOf(store[FileStoreConnection], call[p].namespace)
            IN  /\ result[p].memories =
                     SelectSeq(listed,
                               LAMBDA m : OccursIgnoringCase(call[p].pattern, m.key))
                /\ call[p].pattern = Empty => result[p].memories = listed

\* C13 witness: with "tone" and "notes" stored under the namespace, a search
\* for "TO" has returned the entry "tone" alone.
C13_Witness ==
    /\ Returned("t1", "search_memories")
    /\ pc["t1"] = "idle"
    /\ call["t1"].pattern = << "T", "O" >>
    /\ result["t1"].status = "ok"
    /\ Len(result["t1"].memories) = 1
    /\ result["t1"].memories[1].key = KeyTone
    /\ HasRecord(store[FileStoreConnection], call["t1"].namespace, KeyNotes)

\* The last call of p came through the given tool.
IsTool(p, tool) == "tool" \in DOMAIN call[p] /\ call[p].tool = tool

\* What the tool call of p has returned.
Reply(p) == ToolReply(call[p], result[p])

\* The configured entries of a category, by position.
ConfiguredIn(memory_category) ==
    { i \in 1..Len(settings.file_config) :
        settings.file_config[i].memory_category = memory_category }

\* C14 as stated: ls with a namespace lists the memories stored under it,
\* one entry per key with their count, and ls with no argument lists the
\* namespaces present in the store with their file counts.
C14_LsListsStore ==
    \A p \in Procs :
        (IsTool(p, "ls") /\ call[p].op = "none" /\ pc[p] = "idle") =>
            LET items == store[FileStoreConnection]
            IN  IF call[p].namespace # Empty
                THEN /\ "files" \in DOMAIN Reply(p)
                     /\ Reply(p).count = Cardinality(RecordsUnder(items, call[p].namespace))
                     /\ \A it \in RecordsUnder(items, call[p].namespace) :
                            InList(it.key, Reply(p).files)
                ELSE Reply(p).count = Cardinality(NamespacesPresent(items))

\* C14: ls reports the file configuration, not the store.  With a category
\* it returns the configured files of that category and their number, with
\* no argument the number of all configured files, in both cases without
\* any backend interaction; only with show_all_available does it read the
\* store, returning one annotated entry per entry of list_namespaces.
C14_LsListsConfiguration ==
    \A p \in Procs :
        (IsTool(p, "ls") /\ pc[p] = "idle") =>
            IF call[p].op = "none"
            THEN /\ ops[p] = <<>>
                 /\ IF call[p].namespace # Empty
                    THEN /\ Reply(p).type = "category_files"
                         /\ Reply(p).count = Cardinality(ConfiguredIn(call[p].namespace))
                         /\ Len(Reply(p).files) = Reply(p).count
                         /\ \A i \in ConfiguredIn(call[p].namespace) :
                                InList(settings.file_config[i].file_name, Reply(p).files)
                    ELSE /\ Reply(p).type = "configured_files"
                         /\ Reply(p).count = Len(settings.file_config)
            ELSE result[p].status = "ok" =>
                    /\ Reply(p).type = "all_namespaces"
                    /\ Reply(p).count = Len(result[p].namespaces)
                    /\ \A i \in 1..Reply(p).count :
                        /\ Reply(p).namespaces[i].name = result[p].namespaces[i].name
                        /\ Reply(p).namespaces[i].file_count =
                                result[p].namespaces[i].file_count

\* C14 witness: after a successful write_file of ("prefs", "tone"), with no
\* file configured, ls("prefs") has returned an empty listing.
C14_Witness ==
    /\ IsTool("t1", "ls")
    /\ call["t1"].op = "none"
    /\ call["t1"].namespace = NsPrefs
    /\ pc["t1"] = "idle"
    /\ \E w \in lastWrite : w.namespace = NsPrefs /\ w.key = KeyTone
    /\ HasRecord(store[FileStoreConnection], NsPrefs, KeyTone)
    /\ Reply("t1").count = 0
    /\ Reply("t1").files = <<>>

\* The type tag the error taxonomy gives a failure of each tool.
TypeTag(tool, status) ==
    IF status = "FileNotFoundError" /\ tool \in {"read_file", "edit_file"}
    THEN "not_found"
    ELSE IF status = "PermissionError"
            /\ tool \in {"read_file", "write_file", "edit_file"}
    THEN "permission_denied"
    ELSE IF status = "ValueError" /\ tool \in {"write_file", "edit_file"}
    THEN "validation_error"
    ELSE "error"

EqualsIgnoringCase(a, b) ==
    /\ Len(a) = Len(b)
    /\ \A i \in 1..Len(a) : SameLetter(a[i], b[i])

\* The connector a backend name stands for, by the table of the three names.
ConnectorNamed(backend) ==
    IF EqualsIgnoringCase(backend, BackendRedis) THEN "redis"
    ELSE IF EqualsIgnoringCase(backend, BackendPostgres) THEN "postgresql"
    ELSE IF EqualsIgnoringCase(backend, BackendMongo) THEN "mongodb"
    ELSE "none"

\* C16: the selector returns the Redis, PostgreSQL or MongoDB connector when
\* settings.BACKEND is "redis", "postgresql" or "mongodb" up to case, raises
\* ValueError for every other name, and returns the same connector object
\* on every call: one object per connector is ever built.
C16_SelectorByName ==
    /\ \A p \in Procs :
        call[p].op = "get_store_connection" =>
            IF ConnectorNamed(settings.BACKEND) = "none"
            THEN result[p] = ValueErrorResult
            ELSE /\ result[p].status = "ok"
                 /\ result[p].connection.connector = ConnectorNamed(settings.BACKEND)
    /\ \A p, q \in Procs :
        ( /\ call[p].op = "get_store_connection" /\ result[p].status = "ok"
          /\ call[q].op = "get_store_connection" /\ result[q].status = "ok" )
        => result[p].connection = result[q].connection
    /\ \A c \in Connectors : instances[c] <= 1

\* C16 witness: with BACKEND "PostgreSQL" both callers have been handed the
\* one PostgreSQL connector object.
C16_Witness ==
    /\ settings.BACKEND = BackendPostgresMixed
    /\ \A p \in Procs :
        /\ call[p].op = "get_store_connection"
        /\ result[p].status = "ok"
        /\ result[p].connection = [connector |-> "postgresql", instance |-> 1]

\* C17: with a BACKEND value the selector rejects, the process never gets to
\* serve a call: no operation is started and no backend interaction happens.
C17_UnknownBackendServesNothing ==
    GetStoreConnection(settings.BACKEND) = "ValueError" =>
        \A p \in Procs : call[p] = NoCall /\ ops[p] = <<>> /\ handle[p] = "none"

\* The file counts of a list_namespaces result, added up.
RECURSIVE SumCounts(_)
SumCounts(namespaces) ==
    IF namespaces = <<>> THEN 0
    ELSE Head(namespaces).file_count + SumCounts(Tail(namespaces))

RecordKeys(items) == { << it.namespace, it.key >> : it \in items }

\* C19: update_memory never creates a record, in any interleaving with
\* put_memory.  An update that is about to write, or has returned success,
\* has its record in the store, and no step of an update adds a key to the
\* store.
C19_UpdateNeverCreates ==
    /\ [](\A p \in Procs :
            ( /\ call[p].op = "update_memory"
              /\ \/ pc[p] \in {"put", "reget"}
                 \/ pc[p] \in {"exit", "idle"} /\ result[p].status = "ok" )
            => HasRecord(store[FileStoreConnection], call[p].namespace, call[p].key))
    /\ [][\A p \in Procs :
            ( /\ call[p].op = "update_memory"
              /\ pc[p] # "idle"
              /\ pc'[p] # pc[p] )
            => RecordKeys(store'[FileStoreConnection])
                    = RecordKeys(store[FileStoreConnection])
      ]_vars

\* C19 witness: an update_memory has returned success while the other
\* caller is inside a put_memory on the same record.
C19_Witness ==
    /\ call["t1"].op = "update_memory"
    /\ pc["t1"] = "idle"
    /\ result["t1"].status = "ok"
    /\ call["t2"].op = "put_memory"
    /\ pc["t2"] \in {"put", "reget"}
    /\ call["t2"].key = call["t1"].key

\* The suspension points at a backend primitive.
PrimitivePoints == { "search", "get", "check", "put", "reget" }

\* C20: a caller is at a backend primitive, or has executed one, only after
\* a run of the connector's setup has completed in this process, also when
\* it started while another caller's setup was in progress.
C20_SetupBeforePrimitives ==
    \A p \in Procs :
        ( \/ pc[p] \in PrimitivePoints
          \/ \E i \in 1..Len(ops[p]) : ops[p][i] \in {"search", "get", "put"} )
        => setupRuns[FileStoreConnection] >= 1

\* C20 witness: t2 started while the setup of t1 was pending, ran the setup
\* itself and is at its first primitive; t1 has still not run its setup.
C20_Witness ==
    /\ pc["t1"] = "setup"
    /\ pc["t2"] = "get"
    /\ ops["t2"] = << "setup", "open" >>
    /\ setupRuns[FileStoreConnection] = 1

\* The operations that take a key.
TakesKey(c) == c.op \in {"get_memory", "put_memory", "update_memory"}

\* C21: errors follow the pipeline validate -> policy -> backend.  A call
\* with a malformed namespace fails on the namespace, whatever its key; with
\* a sound namespace and a malformed key it fails on the key; a write with
\* sound identifiers on a read-only target fails with the read-only
\* PermissionError whether or not the record exists; and FileNotFoundError
\* is reported only for calls that are neither malformed nor read-only.
C21_ErrorPrecedence ==
    /\ [](\A p \in Procs :
            result[p] = NotFoundResult =>
                /\ ~InvalidCall(call[p])
                /\ ~(IsWrite(call[p]) /\ IsReadOnly(call[p].namespace, call[p].key)))
    /\ [][\A p \in Procs :
            Called(p) =>
                LET c == call'[p]
                    badNamespace == /\ c.op # "list_namespaces"
                                    /\ ValidateIdentifier(c.namespace) # "ok"
                    badKey == TakesKey(c) /\ ValidateIdentifier(c.key) # "ok"
                    readOnly == IsWrite(c) /\ IsReadOnly(c.namespace, c.key)
                IN  /\ badNamespace => result'[p] = IdentifierError("namespace")
                    /\ (~badNamespace /\ badKey) => result'[p] = IdentifierError("key")
                    /\ (~badNamespace /\ ~badKey /\ readOnly)
                            => (result'[p] = ReadOnlyResult /\ pc'[p] = "idle")
      ]_vars

\* C21 witness: update_memory on a read-only key that holds no record has
\* failed with the read-only PermissionError, without reaching the backend.
C21_Witness ==
    /\ call["t1"].op = "update_memory"
    /\ IsReadOnly(call["t1"].namespace, call["t1"].key)
    /\ ~HasRecord(store[FileStoreConnection], call["t1"].namespace, call["t1"].key)
    /\ result["t1"] = ReadOnlyResult
    /\ pc["t1"] = "idle"
    /\ ops["t1"] = <<>>

\* The step taken is the aput of a put_memory call of p.
PutStepOf(p) ==
    /\ call[p].op = "put_memory"
    /\ pc[p] = "put"
    /\ pc'[p] = "reget"

\* C22 as stated: the set of records only grows, and only a successful
\* put_memory adds a record: every record of the store was there when the
\* process started, or was stored by a write that returned success, or
\* belongs to a put_memory still in flight.
C22_OnlySuccessfulPutAdds ==
    \A it \in store[FileStoreConnection] :
        \/ it = SeedItem
        \/ \E w \in lastWrite :
                it.namespace = NamespaceScope(w.namespace) /\ it.key = w.key
        \/ \E p \in Procs :
                /\ call[p].op = "put_memory"
                /\ pc[p] # "idle"
                /\ it.namespace = NamespaceScope(call[p].namespace)
                /\ it.key = call[p].key

\* C22: the set of (namespace, key) records only grows, in every
\* interleaving and also when backend calls fail; and the only step that
\* adds a record is the aput of a put_memory call, which adds that call's
\* (namespace, key) and nothing else, whether or not the call goes on to
\* return success.
C22_RecordsOnlyGrow ==
    [][/\ \A c \in Connectors : RecordKeys(store[c]) \subseteq RecordKeys(store'[c])
       /\ RecordKeys(store'[FileStoreConnection]) # RecordKeys(store[FileStoreConnection])
            => \E p \in Procs :
                /\ PutStepOf(p)
                /\ RecordKeys(store'[FileStoreConnection])
                     = RecordKeys(store[FileStoreConnection])
                        \cup { << NamespaceScope(call[p].namespace), call[p].key >> }
      ]_vars

\* C22 witness: both records of the namespace exist; one was added by a
\* put_memory that returned success, the other by a put_memory whose
\* re-read failed, while an update_memory of the other caller went through.
C22_Witness ==
    /\ HasRecord(store[FileStoreConnection], NsPrefs, KeyTone)
    /\ HasRecord(store[FileStoreConnection], NsPrefs, KeyNotes)
    /\ \E w \in lastWrite : w.key = KeyTone /\ w.content = "direct"
    /\ call["t1"] = MakeCall("put_memory", NsPrefs, KeyNotes, "concise", Empty)
    /\ pc["t1"] = "idle"
    /\ result["t1"] = BackendErrorResult
    /\ ops["t1"] = << "open", "put", "fault", "close" >>
    /\ ~(\E w \in lastWrite : w.key = KeyNotes)

\* The write of p is returning success: its result dictionary is built.
WriteSucceeded(p) ==
    /\ IsWrite(call[p])
    /\ pc[p] = "exit"
    /\ result[p].status = "ok"

\* C23: a successful put_memory or update_memory returns created_at and
\* updated_at that are not None and are the timestamps of the record
\* version its own aput stored, whatever other writers of the record do.
C23_TimestampsOfOwnWrite ==
    \A p \in Procs :
        WriteSucceeded(p) =>
            /\ result[p].created_at # None
            /\ result[p].updated_at # None
            /\ result[p].created_at = written[p].created_at
            /\ result[p].updated_at = written[p].updated_at

\* The read operations.
IsRead(c) ==
    c.op \in {"list_namespaces", "list_memories", "get_memory", "search_memories"}

\* The step taken is one of caller p.
StepOf(p) ==
    << pc[p], call[p], result[p], ops[p], handle[p] >>
        # << pc'[p], call'[p], result'[p], ops'[p], handle'[p] >>

\* C24: no step of list_namespaces, list_memories, get_memory or
\* search_memories changes a stored record, its content or its timestamps,
\* whether the operation succeeds, finds nothing or fails at the backend.
\* Of the state that outlives the call, a read changes nothing but the
\* setup flag of the connector, which it can only set.
C24_ReadsChangeNoRecord ==
    [][\A p \in Procs :
        (StepOf(p) /\ IsRead(call'[p])) =>
            /\ store' = store
            /\ settings' = settings
            /\ lastWrite' = lastWrite
            /\ clock' = clock
            /\ written' = written
            /\ instances' = instances
            /\ \A c \in Connectors :
                    setupDone'[c] # setupDone[c]
                        => (c = FileStoreConnection /\ setupDone'[c])
      ]_vars

\* C24 witness: a get_memory of a record written earlier has failed at the
\* backend, and the record is in the store as its writer stored it.
C24_Witness ==
    /\ call["t1"] = MakeCall("get_memory", NsPrefs, KeyNotes, "", Empty)
    /\ pc["t1"] = "idle"
    /\ result["t1"] = BackendErrorResult
    /\ ops["t1"] = << "open", "fault", "close" >>
    /\ clock = 2
    /\ \E it \in store[FileStoreConnection] :
            it.key = KeyNotes /\ it.updated_at = 1

\* The call of p ended in ensure_setup, whose setup routine raised.
SetupFailed(p) == InList("setup_fault", ops[p])

\* C25: when the setup routine raises, the operation that ran it ends with
\* that exception, having opened no scoped store and issued no search, get
\* or put, and the flag is left as it was; an operation that starts while
\* the flag is unset runs the setup itself.  The flag is set only by a
\* caller whose setup run completed, and once set it is never reset.
C25_SetupFailurePropagates ==
    /\ [](\A p \in Procs :
            SetupFailed(p) =>
                /\ pc[p] = "idle"
                /\ result[p] = BackendErrorResult
                /\ ops[p] = << "setup_fault" >>
                /\ handle[p] = "none")
    /\ [](setupDone[FileStoreConnection] => setupRuns[FileStoreConnection] >= 1)
    /\ [][/\ (\A p \in Procs :
               (pc[p] = "setup" /\ InList("setup_fault", ops'[p]))
                   => (setupDone' = setupDone /\ store' = store))
          /\ (\A q \in Procs :
               (Called(q) /\ result'[q] = Pending /\ ~setupDone[FileStoreConnection])
                   => pc'[q] = "setup")
          /\ (\A c \in Connectors : setupDone[c] => setupDone'[c])
          /\ (setupDone' # setupDone)
               => (\E r \in Procs :
                   /\ pc[r] = "setup_exit"
                   /\ pc'[r] = "enter"
                   /\ InList("setup", ops[r])
                   /\ setupDone'[FileStoreConnection])
      ]_vars

\* C25 witness: the setup of t2 raised and its call ended with the
\* exception while the flag was unset; t1, started after that, ran the
\* setup again and is at its first primitive with the flag set.
C25_Witness ==
    /\ SetupFailed("t2")
    /\ pc["t2"] = "idle"
    /\ result["t2"] = BackendErrorResult
    /\ ops["t1"] = << "setup", "open" >>
    /\ pc["t1"] \in PrimitivePoints
    /\ setupRuns[FileStoreConnection] = 1
    /\ setupDone[FileStoreConnection]

\* The records stored under the configured tenant id, and the others.
OwnItems(items) ==
    { it \in items : it.namespace # <<>> /\ it.namespace[1] = USER_ID }

OwnUnder(items, namespace) ==
    { it \in OwnItems(items) : it.namespace = << USER_ID, namespace >> }

\* The call of p has returned.
Done(p, op) == Returned(p, op) /\ pc[p] = "idle"

\* C26: the operations see and touch the records of the configured tenant
\* only.  The records of other tenants stay exactly as they were; every
\* record a call stores lies under the tenant id; list_namespaces counts,
\* and list_memories and search_memories return, the tenant's own records
\* and no others; get_memory returns the tenant's own record, and it and
\* update_memory fail with FileNotFoundError when only another tenant
\* holds the (namespace, key).
C26_TenantScoped ==
    LET items == store[FileStoreConnection]
    IN  /\ items \ OwnItems(items) = ForeignItems
        /\ \A p \in Procs :
                written[p] # NoItem => written[p] \in OwnItems({written[p]})
        /\ \A p \in Procs :
                Done(p, "list_namespaces") =>
                    SumCounts(result[p].namespaces) = Cardinality(OwnItems(items))
        /\ \A p \in Procs :
                ( /\ Done(p, "list_memories") \/ Done(p, "search_memories")
                  /\ result[p].status = "ok" ) =>
                    /\ Len(result[p].memories)
                         = Cardinality(OwnUnder(items, call[p].namespace))
                    /\ \A i \in 1..Len(result[p].memories) :
                         \E it \in OwnUnder(items, call[p].namespace) :
                            it.key = result[p].memories[i].key
        /\ \A p \in Procs :
                (Done(p, "get_memory") \/ Done(p, "update_memory")) =>
                    IF \E it \in OwnUnder(items, call[p].namespace) :
                            it.key = call[p].key
                    THEN /\ result[p].status = "ok"
                         /\ call[p].op = "get_memory"
                                => result[p].content \in Contents
                    ELSE result[p] = NotFoundResult

\* C26 witness: with records of two other tenants under ("prefs", "tone")
\* and ("prefs", "notes") and an own record under ("prefs", "tone"),
\* get_memory("prefs", "notes") has failed with FileNotFoundError.
C26_Witness ==
    /\ ForeignItems \subseteq store[FileStoreConnection]
    /\ Cardinality(OwnItems(store[FileStoreConnection])) = 1
    /\ HasRecord(store[FileStoreConnection], NsPrefs, KeyTone)
    /\ Done("t1", "get_memory")
    /\ call["t1"].key = KeyNotes
    /\ result["t1"] = NotFoundResult

=============================================================================
